---- MODULE Spec2Model ----
(***************************************************************************)
(* ovirt-iso-uploader: the list and upload commands of src/src/__main__.py.*)
(*                                                                         *)
(* The state is the effective configuration, the engine's storage domains, *)
(* the destination directory (final names and dot-prefixed temporary       *)
(* names), the process credentials (effective UID/GID), the temporary NFS  *)
(* mount point, the API connection, ExitCodes.exit_code and the position   *)
(* of the single thread of control inside ISOUploader.                     *)
(* Every external command and every system call is a step whose outcome    *)
(* (status 0 / non-zero, return / raise) is chosen by the environment.     *)
(*                                                                         *)
(* Spec runs a command.  CallSpec, CfgSpec, CopySpec and ApiSpec run       *)
(* Caller.call, the construction of Configuration,                         *)
(* copyfileobj_sparse_progress and _initialize_api with its prompts on     *)
(* their own, over all inputs within the bounds.  InterruptSpec is Spec    *)
(* with a KeyboardInterrupt that may arrive at any step.                   *)
(***************************************************************************)
EXTENDS Integers, Sequences, FiniteSets, TLC

(***************************************************************************)
(* Bounds of the model.                                                    *)
(***************************************************************************)
MaxFiles == 2      \* most files given after "upload" on the command line
MaxBytes == 1      \* sizes and free space range over 0..MaxBytes
MaxDomains == 2    \* most storage domains the engine returns to the list command
MaxCalls == 2      \* most calls of Caller.call in a row
MaxStatus == 2     \* exit statuses of a child process range over 0..MaxStatus
MaxLen == 4        \* most bytes in a source file that is copied
MaxChunk == 2      \* the length argument of the copy ranges over 1..MaxChunk

(***************************************************************************)
(* Program constants.                                                      *)
(***************************************************************************)
NOERR == 0
CRITICAL == 1
LIST_ISO_ERR == 2
UPLOAD_ERR == 3
CLEANUP_ERR == 4
NUMERIC_VDSM_ID == 36
ROOT_ID == 0       \* the literal 0 of os.seteuid(0) / os.setegid(0)

LIST == "list"
UPLOAD == "upload"

\* the three side computations are at rest while a command runs
IdleCaller ==
    [pc |-> "idle", calls |-> 0, runs |-> 0,
     proc |-> [returncode |-> 0, stdout |-> "", stderr |-> ""],
     result |-> [kind |-> "none"]]
Absent == "absent"      \* an option not given on a layer
None == "None"          \* Python's None

Opts == {"engine", "user", "force"}
Flags == {"force"}      \* action="store_true"

\* the defaults given to add_option
Defaults == [o \in Opts |->
               IF o = "engine" THEN "localhost:443"
               ELSE IF o = "force" THEN "False"
               ELSE None]

NoOptions == [o \in Opts |-> Absent]

IdleCfg ==
    [pc |-> "idle", argv |-> NoOptions, file |-> NoOptions,
     options |-> Defaults, values |-> [o \in Opts |-> None], status |-> -1]

\* the configuration keys _initialize_api reads; None is a key not in the dict
IdleIni ==
    [pc |-> "idle", api |-> "none", kerberos |-> FALSE,
     conf |-> [engine |-> "localhost:443", user |-> None, passwd |-> None],
     asked |-> << >>, conn |-> << >>, ret |-> None, status |-> -1]

IdleCpy ==
    [pc |-> "idle", fsrc |-> << >>, length |-> 1, make_sparse |-> TRUE,
     rpos |-> 0, data |-> << >>, alloc |-> {}, wpos |-> 0]

Names == {"a.iso", "b.iso"}        \* base names of the local files

VARIABLES
    conf,        \* effective Configuration: iso_domain, nfs_server, ssh_user, force
    args,        \* positional command-line arguments: command, then the files
    files,       \* Configuration.files
    domains,     \* storage domains the engine lists
    dest,        \* destination directory: final name -> "absent" | "old" | "new"
    tmp,         \* destination directory: dot-prefixed temporary name present
    pc,          \* position in upload_to_storage_domain / __main__
    idx,         \* index in files of the file of the current loop iteration
    id,          \* local id: "none" (None) or the resolved domain's UUID
    domain_type, \* local domain_type: "none" (None), "nfs", "localfs"
    retVal,      \* local retVal: result of the existence check
    dir_size,    \* local dir_size (valid between space test and comparison)
    file_size,   \* local file_size
    exit_code,   \* ExitCodes.exit_code
    status,      \* exit status of the process, -1 while it runs
    euid,        \* effective UID of the process
    egid,        \* effective GID of the process
    helper,      \* NFS helper being executed, "none" outside the helpers
    hpc,         \* position inside the helper
    hres,        \* what the helper is going to return or raise
    tmpDir,      \* temporary mount directory: "none" | "present" | "removed"
    mounted,     \* the NFS export is mounted on tmpDir
    log,         \* steps performed for the file of the current iteration
    started,     \* file names in the order their iteration began
    present,     \* ghost: destination file really existed at the existence check
    nospace,     \* ghost: some file was refused for insufficient free space
    api,         \* ISOUploader.api: "none" (None) | "connected" | "failed"
    error,       \* the exception that reached __main__'s handlers, "none" if none
    output,      \* lines printed by the list command: <<name, status>> pairs
    caller,      \* one Caller.call: the child process, its result, run counts
    cfg,         \* Configuration.__init__: command line, file, options, values
    cpy,         \* copyfileobj_sparse_progress: source, destination, positions
    ini          \* _initialize_api: configuration keys, prompts, connection

vars == <<conf, args, files, domains, dest, tmp, pc, idx, id, domain_type,
          retVal, dir_size, file_size, exit_code, status, euid, egid,
          helper, hpc, hres, tmpDir, mounted, log, started, present, nospace,
          api, error, output, caller, cfg, cpy, ini>>

fsVars == <<dest, tmp>>
privVars == <<euid, egid, helper, hpc, hres>>
mountVars == <<tmpDir, mounted>>
inputVars == <<conf, args, files, domains>>
spaceVars == <<dir_size, file_size>>
apiVars == <<api, error, output>>
sideVars == <<caller, cfg, cpy, ini>>
mainVars == <<inputVars, fsVars, privVars, mountVars, spaceVars, apiVars, pc,
              idx, id, domain_type, retVal, exit_code, status, log, started,
              present, nospace>>

(***************************************************************************)
(* Configuration.from_args: the first argument is the command, the others  *)
(* are appended to Configuration.files in the order given.                 *)
(***************************************************************************)
from_args(a) == IF a[1] = UPLOAD THEN SubSeq(a, 2, Len(a)) ELSE << >>

\* a loop that walks the list from its end
FileAtReversed(fs, i) == fs[Len(fs) + 1 - i]

\* for filename in self.configuration.files: the i-th iteration's file
FileAt(fs, i) == fs[i]

\* format_ssh_user: append "@" unless the user is empty or already ends with it
EndsWithAt(u) == u \in {"root@", "vdsm@"}
format_ssh_user(u) == IF u # "" /\ ~EndsWithAt(u) THEN u \o "@" ELSE u

\* a comparison that lets a file through when it exactly fills the space
SpaceOkOrEqual(d, f) == d >= f

\* if (long(dir_size) > long(file_size)) / if (dir_size > file_size)
SpaceOk(d, f) == d > f

(***************************************************************************)
(* Input spaces.                                                           *)
(***************************************************************************)
SeqsUpTo(S, n) == UNION {[1..k -> S] : k \in 1..n}

Configurations ==
    [iso_domain : {"", "ISO"}, nfs_server : {"", "srv:/exp"},
     ssh_user : {"", "root", "vdsm"}, force : BOOLEAN]

Domain(n, t, s, h) ==
    [name |-> n, type |-> t, storage |-> s, hosts |-> h, status |-> "ok"]

DomainLists ==
    { << >>,
      << Domain("ISO", "iso", "nfs", 0) >>,
      << Domain("ISO", "iso", "localfs", 1) >>,
      << Domain("ISO", "iso", "localfs", 0) >>,
      << Domain("ISO", "data", "nfs", 0) >>,
      << Domain("ISO", "iso", "none", 0) >>,
      << Domain("DATA", "data", "nfs", 0), Domain("ISO", "iso", "nfs", 0) >> }

\* domains as the list command reads them: name, type and external_status
\* ("none" when the domain has no status element)
NameOrder == <<"A", "B", "C">>      \* domain names, in string order
ListNames == {NameOrder[k] : k \in 1..Len(NameOrder)}

ListedDomain(n, t, st) == [Domain(n, t, "nfs", 0) EXCEPT !.status = st]

ListedDomains ==
    {ListedDomain(n, t, st) :
        n \in ListNames, t \in {"iso", "data"}, st \in {"ok", "none"}}

ListedDomainLists ==
    {<< >>} \cup UNION {[1..k -> ListedDomains] : k \in 1..MaxDomains}

\* ISOUploader.__init__: the command selects the operation
Dispatch(command) == IF command = LIST THEN "list" ELSE "validate"

\* nothing has run yet
Started ==
    /\ files = from_args(args)
    /\ tmp = [n \in Names |-> FALSE]
    /\ pc = Dispatch(args[1])
    /\ idx = 0
    /\ id = "none"
    /\ domain_type = "none"
    /\ retVal = FALSE
    /\ dir_size = 0
    /\ file_size = 0
    /\ exit_code = NOERR
    /\ status = -1
    /\ euid = ROOT_ID
    /\ egid = ROOT_ID
    /\ helper = "none"
    /\ hpc = "none"
    /\ hres = "none"
    /\ tmpDir = "none"
    /\ mounted = FALSE
    /\ log = << >>
    /\ started = << >>
    /\ present = FALSE
    /\ nospace = FALSE
    /\ api = "none"
    /\ error = "none"
    /\ output = << >>

NoTarget == [iso_domain |-> "", nfs_server |-> "", ssh_user |-> "", force |-> FALSE]

UploadInit ==
    /\ conf \in Configurations
    /\ args \in {<<UPLOAD>> \o s : s \in SeqsUpTo(Names, MaxFiles)}
    /\ domains \in DomainLists
    /\ dest \in [Names -> {"absent", "old"}]

ListInit ==
    /\ conf = NoTarget
    /\ args = <<LIST>>
    /\ domains \in ListedDomainLists
    /\ dest = [n \in Names |-> "absent"]

Init ==
    /\ UploadInit \/ ListInit
    /\ Started
    /\ caller = IdleCaller
    /\ cfg = IdleCfg
    /\ cpy = IdleCpy
    /\ ini = IdleIni

(***************************************************************************)
(* Bookkeeping shared by the steps.                                        *)
(***************************************************************************)
CurFile == FileAt(files, idx)

Step(op, ok) == [file |-> idx, op |-> op, ok |-> ok]

Did(op) == \E k \in 1..Len(log) : log[k].op = op
DidOk(op) == \E k \in 1..Len(log) : log[k].op = op /\ log[k].ok

\* sys.exit(code): the process ends with this status
Exit(code) ==
    /\ pc' = "exited"
    /\ status' = code

(***************************************************************************)
(* upload_to_storage_domain, lines 996-1028: did the user give enough      *)
(* information?  A raised Exception reaches __main__'s handler, which      *)
(* exits with ExitCodes.CRITICAL.                                          *)
(***************************************************************************)
\* a validation in which a named ISO domain wins over an NFS server
TargetDomainFirst(c) ==
    IF c.iso_domain # "" THEN "iso_domain"
    ELSE IF c.nfs_server # "" THEN "nfs_server"
    ELSE "either iso-domain or nfs-server must be provided"

\* where the files are to go, or the message of the Exception raised
Target(c) ==
    IF c.iso_domain # "" /\ c.nfs_server # ""
    THEN "iso-domain and nfs-server are mutually exclusive options"
    ELSE IF c.ssh_user # "" /\ c.nfs_server # ""
    THEN "ssh-user and nfs-server are mutually exclusive options"
    ELSE IF c.iso_domain # "" THEN "iso_domain"
    ELSE IF c.nfs_server # "" THEN "nfs_server"
    ELSE "either iso-domain or nfs-server must be provided"

validate ==
    /\ pc = "validate"
    /\ LET t == Target(conf)
       IN  IF t = "iso_domain"
           THEN pc' = "resolve" /\ UNCHANGED <<status, error>>
           ELSE IF t = "nfs_server"
           THEN pc' = "transport" /\ UNCHANGED <<status, error>>
           ELSE \* except Exception: sys.exit(ExitCodes.CRITICAL)
                error' = t /\ Exit(CRITICAL)
    /\ UNCHANGED <<inputVars, api, output, sideVars, fsVars, privVars,
                   mountVars, spaceVars, idx, id, domain_type, retVal,
                   exit_code, log, started, present, nospace>>

(***************************************************************************)
(* _initialize_api: an existing connection is kept; otherwise a connection *)
(* is made and the product information is read.  Connection is the state   *)
(* of the connection afterwards, initialize_api the value returned.        *)
(***************************************************************************)
ApiOutcomes == {"ok", "no_product_info", "sdk_error", "error"}

Connection(cur, outcome) ==
    IF cur # "none" THEN cur
    ELSE IF outcome = "ok" THEN "connected"
    ELSE "failed"

\* an initialisation that forgets to return False
initialize_api_returns_true(a) == TRUE

\* return False in the three failure branches, return True otherwise
initialize_api(a) == a = "connected"

(***************************************************************************)
(* get_host_and_path_from_ISO_domain: the last listed domain with the      *)
(* given name is taken.                                                    *)
(***************************************************************************)
Matches(ds, n) == {k \in 1..Len(ds) : ds[k].name = n}

LastMatch(ds, n) ==
    LET m == Matches(ds, n)
    IN  ds[CHOOSE k \in m : \A j \in m : j <= k]

\* a lookup that hands any domain of the given name to the upload
LookupAnyType(ds, n) ==
    IF Matches(ds, n) = {} THEN "not_found"
    ELSE LET sd == LastMatch(ds, n)
         IN  IF sd.storage = "none" THEN "no_storage"
             ELSE IF sd.storage = "localfs" /\ sd.hosts = 0 THEN "no_host"
             ELSE sd.storage

\* the outcome of the lookup once the API connection is there
Lookup(ds, n) ==
    IF Matches(ds, n) = {} THEN "not_found"
    ELSE LET sd == LastMatch(ds, n)
         IN  IF sd.type # "iso" THEN "wrong_type"
             ELSE IF sd.storage = "none" THEN "no_storage"
             ELSE IF sd.storage = "localfs" /\ sd.hosts = 0 THEN "no_host"
             ELSE sd.storage

get_host_and_path_from_ISO_domain ==
    /\ pc = "resolve"
    /\ \E outcome \in ApiOutcomes :
         /\ api' = Connection(api, outcome)
         /\ IF ~initialize_api(api')
            THEN \* if not self._initialize_api(): sys.exit(ExitCodes.CRITICAL)
                 /\ Exit(CRITICAL)
                 /\ UNCHANGED <<id, domain_type, error>>
            ELSE LET r == Lookup(domains, conf.iso_domain)
                 IN  IF r = "not_found"
                     THEN \* NEISODomain: sys.exit(ExitCodes.UPLOAD_ERR)
                          /\ error' = "NEISODomain"
                          /\ Exit(UPLOAD_ERR)
                          /\ UNCHANGED <<id, domain_type>>
                     ELSE IF r \in {"wrong_type", "no_storage", "no_host"}
                     THEN /\ error' = r
                          /\ Exit(CRITICAL)
                          /\ UNCHANGED <<id, domain_type>>
                     ELSE /\ id' = "uuid"
                          /\ domain_type' = r
                          /\ pc' = "transport"
                          /\ UNCHANGED <<status, error>>
    /\ UNCHANGED <<inputVars, output, sideVars, fsVars, privVars, mountVars,
                   spaceVars, idx, retVal, exit_code, log, started, present,
                   nospace>>

(***************************************************************************)
(* list_all_ISO_storage_domains: the ISO domains that have a status        *)
(* element, sorted by name (list.sort is stable), printed one per line.    *)
(***************************************************************************)
Rank(n) == CHOOSE k \in 1..Len(NameOrder) : NameOrder[k] = n

get_name(ary) == ary[1]

\* a filter that keeps the domains of every type
AllAry(ds) ==
    LET RECURSIVE all(_)
        all(k) ==
          IF k = 0 THEN << >>
          ELSE IF ds[k].status # "none"
               THEN Append(all(k - 1), <<ds[k].name, ds[k].status>>)
               ELSE all(k - 1)
    IN  all(Len(ds))

\* for domain in domainAry: ... isoAry.append([domain.name, status.value])
IsoAry(ds) ==
    LET RECURSIVE iso(_)
        iso(k) ==
          IF k = 0 THEN << >>
          ELSE IF ds[k].type = "iso" /\ ds[k].status # "none"
               THEN Append(iso(k - 1), <<ds[k].name, ds[k].status>>)
               ELSE iso(k - 1)
    IN  iso(Len(ds))

\* one element put into a sorted list, after the elements of equal key
Insert(sorted, e) ==
    LET n == Cardinality({k \in 1..Len(sorted) :
                            Rank(get_name(sorted[k])) <= Rank(get_name(e))})
    IN  SubSeq(sorted, 1, n) \o <<e>> \o SubSeq(sorted, n + 1, Len(sorted))

\* a listing in the order the engine returned the domains
Unsorted(ary) == ary

\* isoAry.sort(key=get_name)
Sort(ary) ==
    LET RECURSIVE sort(_)
        sort(k) == IF k = 0 THEN << >> ELSE Insert(sort(k - 1), ary[k])
    IN  sort(Len(ary))

list_all_ISO_storage_domains ==
    /\ pc = "list"
    /\ \E outcome \in ApiOutcomes :
         /\ api' = Connection(api, outcome)
         /\ IF ~initialize_api(api')
            THEN \* if not self._initialize_api(): sys.exit(ExitCodes.CRITICAL)
                 /\ Exit(CRITICAL)
                 /\ UNCHANGED <<exit_code, error, output>>
            ELSE \E listed \in {"list", "None", "raise"} :
                   IF listed = "raise"
                   THEN \* except Exception: sys.exit(ExitCodes.CRITICAL)
                        /\ error' = "Error"
                        /\ Exit(CRITICAL)
                        /\ UNCHANGED <<exit_code, output>>
                   ELSE IF listed = "None"
                   THEN /\ exit_code' = LIST_ISO_ERR
                        /\ error' = "There are no storage domains available."
                        /\ pc' = "return"
                        /\ UNCHANGED <<status, output>>
                   ELSE LET isoAry == IsoAry(domains)
                        IN  IF Len(isoAry) > 0
                            THEN /\ output' = Sort(isoAry)
                                 /\ pc' = "return"
                                 /\ UNCHANGED <<status, exit_code, error>>
                            ELSE /\ exit_code' = LIST_ISO_ERR
                                 /\ error' = "There are no ISO storage domains."
                                 /\ pc' = "return"
                                 /\ UNCHANGED <<status, output>>
    /\ UNCHANGED <<inputVars, sideVars, fsVars, privVars, mountVars, spaceVars,
                   idx, id, domain_type, retVal, log, started, present, nospace>>

(***************************************************************************)
(* Lines 1031, 1141, 1149-1151: SSH when an SSH user was supplied, no      *)
(* upload to a local storage domain otherwise, else NFS on a fresh         *)
(* temporary directory.                                                    *)
(***************************************************************************)
\* a choice that takes SSH for root only
ssh_transport_root_only(c) == c.ssh_user = "root"

\* if conf.get('ssh_user'): an empty or missing user is false
ssh_transport(c) == c.ssh_user # ""

\* a choice that mounts whatever the storage type is
local_storage_never(t) == FALSE

\* elif domain_type in ('localfs', ):
local_storage(t) == t \in {"localfs"}

choose_transport ==
    /\ pc = "transport"
    /\ IF ssh_transport(conf)
       THEN /\ pc' = "ssh_for"
            /\ UNCHANGED <<exit_code, tmpDir>>
       ELSE IF local_storage(domain_type)
       THEN /\ exit_code' = UPLOAD_ERR
            /\ pc' = "return"
            /\ UNCHANGED tmpDir
       ELSE /\ tmpDir' = "present"
            /\ pc' = "nfs_mount"
            /\ UNCHANGED exit_code
    /\ UNCHANGED <<inputVars, apiVars, sideVars, fsVars, privVars, mounted, spaceVars, idx, id,
                   domain_type, retVal, status, log, started, present, nospace>>

(***************************************************************************)
(* The for statement of a transport: the next file, or the end of the      *)
(* loop.                                                                   *)
(***************************************************************************)
ForNext(first, after) ==
    /\ IF idx < Len(files)
       THEN /\ idx' = idx + 1
            /\ started' = Append(started, FileAt(files, idx + 1))
            /\ log' = << >>
            /\ present' = FALSE
            /\ pc' = first
       ELSE /\ pc' = after
            /\ UNCHANGED <<idx, started, log, present>>
    /\ UNCHANGED <<inputVars, apiVars, sideVars, fsVars, privVars, mountVars, spaceVars, id,
                   domain_type, retVal, exit_code, status, nospace>>

ssh_for ==
    /\ pc = "ssh_for"
    /\ ForNext("ssh_exists", "return")

(***************************************************************************)
(* SSH transport, lines 1034-1140.                                         *)
(***************************************************************************)
\* except Exception, e: of the SSH loop body (lines 1127-1140)
ssh_except ==
    /\ exit_code' = UPLOAD_ERR
    /\ pc' = "ssh_for"

\* exists_ssh: returncode starts as 1 and any failure of the call is passed
\* over, so the result is True exactly when ssh ran "test -e" and it found
\* the file
exists_ssh_result(call_ok, there) == call_ok /\ there

\* the branch on the existence check (lines 1043-1049 and 1117-1126,
\* 1172-1181 and 1249-1258)
ExistsBranch(found, remove, space, loop) ==
    IF conf.force \/ ~found
    THEN /\ pc' = (IF found THEN remove ELSE space)
         /\ UNCHANGED exit_code
    ELSE /\ exit_code' = UPLOAD_ERR
         /\ pc' = loop

exists_ssh ==
    /\ pc = "ssh_exists"
    /\ \E call_ok \in BOOLEAN :
         LET there == dest[CurFile] # "absent"
             found == exists_ssh_result(call_ok, there)
         IN  /\ retVal' = found
             /\ present' = there
             /\ log' = Append(log, Step("exists", call_ok))
             /\ ExistsBranch(found, "ssh_remove", "ssh_space", "ssh_for")
    /\ UNCHANGED <<inputVars, apiVars, sideVars, fsVars, privVars, mountVars, spaceVars, idx, id,
                   domain_type, status, started, nospace>>

remove_file_ssh ==
    /\ pc = "ssh_remove"
    /\ \E ok \in BOOLEAN :
         /\ log' = Append(log, Step("remove", ok))
         /\ IF ok
            THEN /\ dest' = [dest EXCEPT ![CurFile] = "absent"]
                 /\ pc' = "ssh_space"
                 /\ UNCHANGED exit_code
            ELSE /\ ssh_except
                 /\ UNCHANGED dest
    /\ UNCHANGED <<inputVars, apiVars, sideVars, tmp, privVars, mountVars, spaceVars, idx, id,
                   domain_type, retVal, status, started, present, nospace>>

space_test_ssh ==
    /\ pc = "ssh_space"
    /\ \E ok \in BOOLEAN, d \in 0..MaxBytes, f \in 0..MaxBytes :
         /\ log' = Append(log, Step("space", ok))
         /\ IF ok
            THEN /\ dir_size' = d
                 /\ file_size' = f
                 /\ pc' = "ssh_cmp"
                 /\ UNCHANGED exit_code
            ELSE /\ ssh_except
                 /\ UNCHANGED spaceVars
    /\ UNCHANGED <<inputVars, apiVars, sideVars, fsVars, privVars, mountVars, idx, id,
                   domain_type, retVal, status, started, present, nospace>>

\* if (dir_size > file_size): ... else: logging.error('There is not enough
\* space ...'); the two locals are not read afterwards
CompareSpace(copy, loop) ==
    /\ IF SpaceOk(dir_size, file_size)
       THEN /\ pc' = copy
            /\ UNCHANGED <<log, nospace>>
       ELSE /\ log' = Append(log, Step("no_space", FALSE))
            /\ nospace' = TRUE
            /\ pc' = loop
    /\ dir_size' = 0
    /\ file_size' = 0
    /\ UNCHANGED <<inputVars, apiVars, sideVars, fsVars, privVars, mountVars, idx, id,
                   domain_type, retVal, exit_code, status, started, present>>

ssh_compare ==
    /\ pc = "ssh_cmp"
    /\ CompareSpace("ssh_scp", "ssh_for")

\* self.caller.call(cmd) of one remote command: go on, or raise into the
\* handler of the loop body
SshCall(op, ok, next) ==
    /\ log' = Append(log, Step(op, ok))
    /\ IF ok
       THEN /\ pc' = next
            /\ UNCHANGED exit_code
       ELSE ssh_except

scp ==
    /\ pc = "ssh_scp"
    /\ \E ok \in BOOLEAN, partial \in BOOLEAN :
         /\ SshCall("copy", ok,
                    IF format_ssh_user(conf.ssh_user) = "root@"
                    THEN "ssh_chown" ELSE "ssh_chmod")
         /\ tmp' = [tmp EXCEPT ![CurFile] = IF ok THEN TRUE ELSE @ \/ partial]
    /\ UNCHANGED <<inputVars, apiVars, sideVars, dest, privVars, mountVars, spaceVars, idx, id,
                   domain_type, retVal, status, started, present, nospace>>

chown ==
    /\ pc = "ssh_chown"
    /\ \E ok \in BOOLEAN : SshCall("chown", ok, "ssh_chmod")
    /\ UNCHANGED <<inputVars, apiVars, sideVars, fsVars, privVars, mountVars, spaceVars, idx, id,
                   domain_type, retVal, status, started, present, nospace>>

chmod ==
    /\ pc = "ssh_chmod"
    /\ \E ok \in BOOLEAN : SshCall("chmod", ok, "ssh_rename")
    /\ UNCHANGED <<inputVars, apiVars, sideVars, fsVars, privVars, mountVars, spaceVars, idx, id,
                   domain_type, retVal, status, started, present, nospace>>

\* mv -fv of the temporary name onto the final name
Renamed(d, f) == [d EXCEPT ![f] = "new"]

rename_file_ssh ==
    /\ pc = "ssh_rename"
    /\ \E ok \in BOOLEAN :
         /\ SshCall("rename", ok, "ssh_refresh")
         /\ IF ok
            THEN /\ dest' = Renamed(dest, CurFile)
                 /\ tmp' = [tmp EXCEPT ![CurFile] = FALSE]
            ELSE UNCHANGED fsVars
    /\ UNCHANGED <<inputVars, apiVars, sideVars, privVars, mountVars, spaceVars, idx, id,
                   domain_type, retVal, status, started, present, nospace>>

(***************************************************************************)
(* refresh_iso_domain followed by the "uploaded successfully" message.     *)
(* The API connection exists already (a domain id is only obtained through *)
(* it); a failing request is logged as a warning and nothing else.         *)
(***************************************************************************)
\* a refresh whose failure escapes to the handler of the loop
RefreshStepsRaising(ok) ==
    IF ok THEN <<Step("refresh", TRUE), Step("uploaded", TRUE)>>
    ELSE <<Step("refresh", FALSE)>>

\* try: ...files_service().list() except Exception: logging.warn(...), and
\* then logging.info("%s uploaded successfully") of the caller
RefreshSteps(ok) == <<Step("refresh", ok), Step("uploaded", TRUE)>>

Refresh(loop) ==
    /\ \E outcome \in ApiOutcomes, ok \in BOOLEAN :
         /\ api' = Connection(api, outcome)
         /\ IF ~initialize_api(api')
            THEN \* if not self._initialize_api(): sys.exit(ExitCodes.CRITICAL)
                 /\ Exit(CRITICAL)
                 /\ UNCHANGED log
            ELSE /\ log' = log \o RefreshSteps(ok)
                 /\ pc' = loop
                 /\ UNCHANGED status
    /\ UNCHANGED <<inputVars, error, output, sideVars, fsVars, privVars,
                   mountVars, spaceVars, idx, id, domain_type, retVal,
                   exit_code, started, present, nospace>>

ssh_refresh ==
    /\ pc = "ssh_refresh"
    /\ Refresh("ssh_for")

(***************************************************************************)
(* __main__, line 1520: sys.exit(ExitCodes.exit_code)                      *)
(***************************************************************************)
main_exit ==
    /\ pc = "return"
    /\ Exit(exit_code)
    /\ UNCHANGED <<inputVars, apiVars, sideVars, fsVars, privVars, mountVars, spaceVars, idx, id,
                   domain_type, retVal, exit_code, log, started, present,
                   nospace>>

(***************************************************************************)
(* NFS transport, lines 1151-1283.                                         *)
(***************************************************************************)
\* a handler that leaves the exit code as it was
SetupFailedUnnoticed(code) == code

\* except KeyError: / except Exception, e: of lines 1260-1274
SetupFailed(code) == CRITICAL

\* self.caller.call(cmd) of the mount command; a failure is handled by
\* "except Exception" of line 1272
nfs_mount ==
    /\ pc = "nfs_mount"
    /\ \E ok \in BOOLEAN :
         IF ok
         THEN /\ mounted' = TRUE
              /\ pc' = "nfs_getpwnam"
              /\ UNCHANGED exit_code
         ELSE /\ exit_code' = SetupFailed(exit_code)
              /\ pc' = "nfs_umount"
              /\ UNCHANGED mounted
    /\ UNCHANGED <<inputVars, apiVars, sideVars, fsVars, privVars, tmpDir, spaceVars, idx, id,
                   domain_type, retVal, status, log, started, present, nospace>>

\* getpwnam(NFS_USER); KeyError is handled at line 1260
getpwnam ==
    /\ pc = "nfs_getpwnam"
    /\ \E known \in BOOLEAN :
         IF known
         THEN /\ pc' = "nfs_for"
              /\ UNCHANGED exit_code
         ELSE /\ exit_code' = SetupFailed(exit_code)
              /\ pc' = "nfs_umount"
    /\ UNCHANGED <<inputVars, apiVars, sideVars, fsVars, privVars, mountVars, spaceVars, idx, id,
                   domain_type, retVal, status, log, started, present, nospace>>

nfs_for ==
    /\ pc = "nfs_for"
    /\ ForNext("nfs_exists", "nfs_umount")

\* except Exception, e: of the inner try (lines 1228-1248)
nfs_except ==
    /\ exit_code' = UPLOAD_ERR
    /\ pc' = "nfs_for"

(***************************************************************************)
(* The privilege bracket every NFS helper has (exists_nfs, space_test_nfs, *)
(* copy_file, rename_file_nfs, remove_file_nfs):                           *)
(*     try: os.setegid(gid); os.seteuid(uid); <body>                       *)
(*     finally: os.seteuid(0); os.setegid(0)                               *)
(* The tool runs as root (Configuration.__init__ refuses anything else),   *)
(* so the four calls themselves succeed.                                   *)
(***************************************************************************)
HelperOf(p) ==
    CASE p = "nfs_exists" -> "exists_nfs"
      [] p = "nfs_remove" -> "remove_file_nfs"
      [] p = "nfs_space"  -> "space_test_nfs"
      [] p = "nfs_copy"   -> "copy_file"
      [] p = "nfs_rename" -> "rename_file_nfs"

\* what os.seteuid / os.setegid leave as the effective id
SetId(new) == new

setegid_lower ==
    /\ \/ /\ helper = "none"
          /\ pc \in {"nfs_exists", "nfs_remove", "nfs_space", "nfs_rename"}
       \/ /\ helper = "copy_file"
          /\ hpc = "setegid"
    /\ helper' = HelperOf(pc)
    /\ egid' = SetId(NUMERIC_VDSM_ID)
    /\ hpc' = "seteuid"
    /\ UNCHANGED <<inputVars, apiVars, sideVars, fsVars, mountVars, spaceVars, pc, idx, id,
                   domain_type, retVal, exit_code, status, euid, hres, log,
                   started, present, nospace>>

seteuid_lower ==
    /\ hpc = "seteuid"
    /\ euid' = SetId(NUMERIC_VDSM_ID)
    /\ hpc' = "body"
    /\ UNCHANGED <<inputVars, apiVars, sideVars, fsVars, mountVars, spaceVars, pc, idx, id,
                   domain_type, retVal, exit_code, status, egid, helper, hres,
                   log, started, present, nospace>>

\* a helper that forgets the user when it restores the privileges
RestoreUidForgotten(u) == u

\* finally: os.seteuid(0)
RestoreUid(u) == SetId(ROOT_ID)

\* a helper that forgets the group when it restores the privileges
RestoreGidForgotten(g) == g

\* finally: os.setegid(0)
RestoreGid(g) == SetId(ROOT_ID)

seteuid_restore ==
    /\ hpc = "finally"
    /\ euid' = RestoreUid(euid)
    /\ hpc' = "setegid0"
    /\ UNCHANGED <<inputVars, apiVars, sideVars, fsVars, mountVars, spaceVars, pc, idx, id,
                   domain_type, retVal, exit_code, status, egid, helper, hres,
                   log, started, present, nospace>>

setegid_restore ==
    /\ hpc = "setegid0"
    /\ egid' = RestoreGid(egid)
    /\ hpc' = "return"
    /\ UNCHANGED <<inputVars, apiVars, sideVars, fsVars, mountVars, spaceVars, pc, idx, id,
                   domain_type, retVal, exit_code, status, euid, helper, hres,
                   log, started, present, nospace>>

\* the helper is left: back in upload_to_storage_domain
Leave ==
    /\ helper' = "none"
    /\ hpc' = "none"
    /\ hres' = "none"

InBody(h) == helper = h /\ hpc = "body"
AtReturn(h) == helper = h /\ hpc = "return"

(***************************************************************************)
(* exists_nfs: return os.path.exists(file)                                 *)
(***************************************************************************)
exists_nfs_body ==
    /\ InBody("exists_nfs")
    /\ present' = (dest[CurFile] # "absent")
    /\ hres' = (IF dest[CurFile] # "absent" THEN "true" ELSE "false")
    /\ hpc' = "finally"
    /\ UNCHANGED <<inputVars, apiVars, sideVars, fsVars, mountVars, spaceVars, pc, idx, id,
                   domain_type, retVal, exit_code, status, euid, egid, helper,
                   log, started, nospace>>

exists_nfs_return ==
    /\ AtReturn("exists_nfs")
    /\ Leave
    /\ retVal' = (hres = "true")
    /\ log' = Append(log, Step("exists", TRUE))
    /\ ExistsBranch(hres = "true", "nfs_remove", "nfs_space", "nfs_for")
    /\ UNCHANGED <<inputVars, apiVars, sideVars, fsVars, mountVars, spaceVars, idx, id,
                   domain_type, status, euid, egid, started, present, nospace>>

(***************************************************************************)
(* remove_file_nfs: os.remove(file_name); a failure is logged inside the   *)
(* helper and not passed on.                                               *)
(***************************************************************************)
remove_file_nfs_body ==
    /\ InBody("remove_file_nfs")
    /\ \E ok \in BOOLEAN :
         /\ log' = Append(log, Step("remove", ok))
         /\ hres' = (IF ok THEN "true" ELSE "false")
         /\ dest' = (IF ok THEN [dest EXCEPT ![CurFile] = "absent"] ELSE dest)
    /\ hpc' = "finally"
    /\ UNCHANGED <<inputVars, apiVars, sideVars, tmp, mountVars, spaceVars, pc, idx, id,
                   domain_type, retVal, exit_code, status, euid, egid, helper,
                   started, present, nospace>>

remove_file_nfs_return ==
    /\ AtReturn("remove_file_nfs")
    /\ Leave
    /\ pc' = "nfs_space"
    /\ UNCHANGED <<inputVars, apiVars, sideVars, fsVars, mountVars, spaceVars, idx, id,
                   domain_type, retVal, exit_code, status, euid, egid, log,
                   started, present, nospace>>

(***************************************************************************)
(* space_test_nfs: os.statvfs(dir) inside the bracket, os.path.getsize     *)
(* after it; either may raise.                                             *)
(***************************************************************************)
space_test_nfs_body ==
    /\ InBody("space_test_nfs")
    /\ \E ok \in BOOLEAN : hres' = (IF ok THEN "true" ELSE "raise")
    /\ hpc' = "finally"
    /\ UNCHANGED <<inputVars, apiVars, sideVars, fsVars, mountVars, spaceVars, pc, idx, id,
                   domain_type, retVal, exit_code, status, euid, egid, helper,
                   log, started, present, nospace>>

space_test_nfs_return ==
    /\ AtReturn("space_test_nfs")
    /\ Leave
    /\ \E size_ok \in BOOLEAN, d \in 0..MaxBytes, f \in 0..MaxBytes :
         LET ok == hres = "true" /\ size_ok
         IN  /\ log' = Append(log, Step("space", ok))
             /\ IF ok
                THEN /\ dir_size' = d
                     /\ file_size' = f
                     /\ pc' = "nfs_cmp"
                     /\ UNCHANGED exit_code
                ELSE /\ nfs_except
                     /\ UNCHANGED spaceVars
    /\ UNCHANGED <<inputVars, apiVars, sideVars, fsVars, mountVars, idx, id, domain_type, retVal,
                   status, euid, egid, started, present, nospace>>

nfs_compare ==
    /\ pc = "nfs_cmp"
    /\ CompareSpace("nfs_copy", "nfs_for")

(***************************************************************************)
(* copy_file.  src is opened before the privileges are lowered; when an    *)
(* open fails the name stays unbound and the close() of the finally clause *)
(* raises, after the privileges have been restored.  A failure while the   *)
(* data is copied makes the helper return False.                           *)
(***************************************************************************)
copy_file_open_src ==
    /\ pc = "nfs_copy"
    /\ helper = "none"
    /\ helper' = "copy_file"
    /\ \E ok \in BOOLEAN :
         IF ok
         THEN /\ hpc' = "setegid"
              /\ UNCHANGED <<hres, log>>
         ELSE /\ hres' = "src_unbound"
              /\ hpc' = "finally"
              /\ log' = Append(log, Step("copy", FALSE))
    /\ UNCHANGED <<inputVars, apiVars, sideVars, fsVars, mountVars, spaceVars, pc, idx, id,
                   domain_type, retVal, exit_code, status, euid, egid,
                   started, present, nospace>>

copy_file_body ==
    /\ InBody("copy_file")
    /\ \E o \in {"dest_unbound", "false", "true"} :
         /\ hres' = o
         /\ log' = Append(log, Step("copy", o = "true"))
         /\ tmp' = [tmp EXCEPT ![CurFile] = IF o = "dest_unbound" THEN @ ELSE TRUE]
    /\ hpc' = "finally"
    /\ UNCHANGED <<inputVars, apiVars, sideVars, dest, mountVars, spaceVars, pc, idx, id,
                   domain_type, retVal, exit_code, status, euid, egid, helper,
                   started, present, nospace>>

\* a caller that does not look at the result of copy_file
CopyResultIgnored(r) == TRUE

\* if self.copy_file(...): the rename follows a True result only
CopySucceeded(r) == r = "true"

copy_file_return ==
    /\ AtReturn("copy_file")
    /\ Leave
    /\ IF hres \in {"src_unbound", "dest_unbound"}
       THEN nfs_except
       ELSE /\ pc' = (IF CopySucceeded(hres) THEN "nfs_rename" ELSE "nfs_for")
            /\ UNCHANGED exit_code
    /\ UNCHANGED <<inputVars, apiVars, sideVars, fsVars, mountVars, spaceVars, idx, id,
                   domain_type, retVal, status, euid, egid, log, started,
                   present, nospace>>

(***************************************************************************)
(* rename_file_nfs: os.rename; a failure sets ExitCodes.exit_code inside   *)
(* the helper and makes it return False.                                   *)
(***************************************************************************)
rename_file_nfs_body ==
    /\ InBody("rename_file_nfs")
    /\ \E ok \in BOOLEAN :
         /\ log' = Append(log, Step("rename", ok))
         /\ hres' = (IF ok THEN "true" ELSE "false")
         /\ IF ok
            THEN /\ dest' = Renamed(dest, CurFile)
                 /\ tmp' = [tmp EXCEPT ![CurFile] = FALSE]
                 /\ UNCHANGED exit_code
            ELSE /\ exit_code' = UPLOAD_ERR
                 /\ UNCHANGED fsVars
    /\ hpc' = "finally"
    /\ UNCHANGED <<inputVars, apiVars, sideVars, mountVars, spaceVars, pc, idx, id, domain_type,
                   retVal, status, euid, egid, helper, started, present,
                   nospace>>

\* a loop that refreshes whether or not a domain was resolved
refresh_always(i) == TRUE

\* if id is not None: self.refresh_iso_domain(id)
refresh_wanted(i) == i # "none"

rename_file_nfs_return ==
    /\ AtReturn("rename_file_nfs")
    /\ Leave
    /\ IF hres = "true"
       THEN IF refresh_wanted(id)
            THEN /\ pc' = "nfs_refresh"
                 /\ UNCHANGED log
            ELSE /\ log' = Append(log, Step("uploaded", TRUE))
                 /\ pc' = "nfs_for"
       ELSE /\ pc' = "nfs_for"
            /\ UNCHANGED log
    /\ UNCHANGED <<inputVars, apiVars, sideVars, fsVars, mountVars, spaceVars, idx, id,
                   domain_type, retVal, exit_code, status, euid, egid, started,
                   present, nospace>>

nfs_refresh ==
    /\ pc = "nfs_refresh"
    /\ Refresh("nfs_for")

(***************************************************************************)
(* finally: of lines 1275-1283: umount, then shutil.rmtree, in one try;    *)
(* any failure sets ExitCodes.CLEANUP_ERR.  umount of a directory on which *)
(* nothing is mounted ends with a non-zero status.                         *)
(***************************************************************************)
\* the exit code after a failed cleanup step
CleanupFailed(code) == CLEANUP_ERR

umount ==
    /\ pc = "nfs_umount"
    /\ \E ok \in BOOLEAN :
         IF mounted /\ ok
         THEN /\ mounted' = FALSE
              /\ pc' = "nfs_rmtree"
              /\ UNCHANGED exit_code
         ELSE /\ exit_code' = CleanupFailed(exit_code)
              /\ pc' = "return"
              /\ UNCHANGED mounted
    /\ UNCHANGED <<inputVars, apiVars, sideVars, fsVars, privVars, tmpDir, spaceVars, idx, id,
                   domain_type, retVal, status, log, started, present, nospace>>

rmtree ==
    /\ pc = "nfs_rmtree"
    /\ \E ok \in BOOLEAN :
         IF ok
         THEN /\ tmpDir' = "removed"
              /\ UNCHANGED exit_code
         ELSE /\ exit_code' = CleanupFailed(exit_code)
              /\ UNCHANGED tmpDir
    /\ pc' = "return"
    /\ UNCHANGED <<inputVars, apiVars, sideVars, fsVars, privVars, mounted, spaceVars, idx, id,
                   domain_type, retVal, status, log, started, present, nospace>>

Next ==
    \/ list_all_ISO_storage_domains
    \/ validate
    \/ get_host_and_path_from_ISO_domain
    \/ choose_transport
    \/ ssh_for
    \/ exists_ssh
    \/ remove_file_ssh
    \/ space_test_ssh
    \/ ssh_compare
    \/ scp
    \/ chown
    \/ chmod
    \/ rename_file_ssh
    \/ ssh_refresh
    \/ nfs_mount
    \/ getpwnam
    \/ nfs_for
    \/ setegid_lower
    \/ seteuid_lower
    \/ seteuid_restore
    \/ setegid_restore
    \/ exists_nfs_body
    \/ exists_nfs_return
    \/ remove_file_nfs_body
    \/ remove_file_nfs_return
    \/ space_test_nfs_body
    \/ space_test_nfs_return
    \/ nfs_compare
    \/ copy_file_open_src
    \/ copy_file_body
    \/ copy_file_return
    \/ rename_file_nfs_body
    \/ rename_file_nfs_return
    \/ nfs_refresh
    \/ umount
    \/ rmtree
    \/ main_exit

Spec == Init /\ [][Next]_vars

(***************************************************************************)
(* Properties.                                                             *)
(***************************************************************************)
OnSsh == pc \in {"ssh_for", "ssh_exists", "ssh_remove", "ssh_space", "ssh_cmp",
                 "ssh_scp", "ssh_chown", "ssh_chmod", "ssh_rename",
                 "ssh_refresh"}
OnNfs == pc \in {"nfs_for", "nfs_exists", "nfs_remove", "nfs_space", "nfs_cmp",
                 "nfs_copy", "nfs_rename", "nfs_refresh"}
Exited == pc = "exited"

\* positions of the log at which op was performed
At(op) == {k \in 1..Len(log) : log[k].op = op}

\* C1: a destination file that exists is left alone without --force: for
\* the file of the current iteration, when the file was there at the
\* existence check and force is off, no remove, copy or rename is performed.
C1_ExistingFileSkipped ==
    (present /\ ~conf.force) =>
        (~Did("remove") /\ ~Did("copy") /\ ~Did("rename"))

\* C2: when the comparison finds free bytes <= source size, the step taken
\* goes straight back to the for statement without a copy or rename, with
\* the destination and the exit code untouched; and the for statement, as
\* long as files are left, starts the next file with its existence check.
C2_NoSpaceSkipsOnlyThatFile ==
    [][ /\ (pc \in {"ssh_cmp", "nfs_cmp"} /\ dir_size <= file_size) =>
              /\ pc' = (IF pc = "ssh_cmp" THEN "ssh_for" ELSE "nfs_for")
              /\ idx' = idx
              /\ dest' = dest /\ tmp' = tmp
              /\ exit_code' = exit_code
              /\ \A k \in 1..Len(log') : log'[k].op \notin {"copy", "rename"}
        /\ (pc \in {"ssh_for", "nfs_for"} /\ idx < Len(files)) =>
              /\ pc' = (IF pc = "ssh_for" THEN "ssh_exists" ELSE "nfs_exists")
              /\ idx' = idx + 1
              /\ log' = << >>
      ]_vars

\* C2 witness: the first file was refused for lack of space and the second
\* file has been copied.
C2_Witness == nospace /\ idx = 2 /\ DidOk("copy")

\* C3: when some file was refused for insufficient free space, the process
\* exits with a non-zero status.
C3_NoSpaceGivesNonZeroExit == (Exited /\ nospace) => status # NOERR

\* C4: the process exits 0 only if every file of the job ended under its
\* final destination name.
C4_ZeroExitMeansAllUploaded ==
    (Exited /\ status = NOERR) =>
        \A k \in 1..Len(files) : dest[files[k]] # "absent"

\* C5: in a run that took the NFS transport, the temporary mount directory
\* is unmounted and removed when the process exits.
C5_MountPointRemoved ==
    (Exited /\ tmpDir # "none") => (tmpDir = "removed" /\ ~mounted)

\* C6: a cleanup step that fails leaves a non-zero exit code as it was (and
\* sets the cleanup code when none was set).
C6_CleanupKeepsEarlierCode ==
    [][ (pc \in {"nfs_umount", "nfs_rmtree"} /\ exit_code # NOERR) =>
            exit_code' = exit_code ]_vars

\* C7: outside the NFS helpers, and at the point where a helper returns or
\* raises, the effective UID and GID are both 0.
C7_PrivilegesRestored ==
    (helper = "none" \/ hpc = "return") => (euid = ROOT_ID /\ egid = ROOT_ID)

\* C7 witness: copy_file is about to raise (its destination could not be
\* opened after the privileges were lowered) and the process is root again.
C7_Witness ==
    helper = "copy_file" /\ hpc = "return" /\ hres = "dest_unbound" /\ euid = ROOT_ID

\* C8: on the NFS transport a rename is only attempted after a copy that
\* reported success, refresh and the success report only follow a
\* successful rename, and a final name only becomes the new file in a step
\* that renames the temporary file.
C8_RenameOnlyAfterCopy ==
    [][ (OnNfs' \/ helper' # "none") =>
          /\ \A k \in At("rename")' :
                 \E j \in 1..(k-1) : log'[j].op = "copy" /\ log'[j].ok
          /\ \A k \in (At("refresh") \cup At("uploaded"))' :
                 \E j \in 1..(k-1) : log'[j].op = "rename" /\ log'[j].ok
          /\ \A f \in Names :
                 (dest'[f] = "new" /\ dest[f] # "new") =>
                     /\ tmp[f] /\ ~tmp'[f]
                     /\ log' = Append(log, Step("rename", TRUE))
      ]_vars

\* C8 witness: a file uploaded over NFS: copied, renamed, reported.
C8_Witness == OnNfs /\ DidOk("copy") /\ DidOk("rename") /\ Did("uploaded")

\* order of the steps of one file on the SSH transport
SshRank(op) ==
    CASE op = "exists" -> 1
      [] op = "remove" -> 2
      [] op = "space" -> 3
      [] op = "no_space" -> 4
      [] op = "copy" -> 4
      [] op = "chown" -> 5
      [] op = "chmod" -> 6
      [] op = "rename" -> 7
      [] op = "refresh" -> 8
      [] op = "uploaded" -> 9

\* the steps of one file on the SSH transport that run a remote command or
\* an API request
SshSteps == {"exists", "remove", "space", "copy", "chown", "chmod", "rename",
             "refresh"}

\* C9: on the SSH transport the steps of a file run in the order existence
\* check, space check, scp, chown (root only), chmod, rename, refresh, and
\* no step of the file follows a step that failed.
C9_SshStepsInOrder ==
    OnSsh =>
        /\ \A j, k \in 1..Len(log) :
               j < k => SshRank(log[j].op) < SshRank(log[k].op)
        /\ Did("chown") => format_ssh_user(conf.ssh_user) = "root@"
        /\ \A j, k \in 1..Len(log) :
               (j < k /\ log[j].op \in SshSteps /\ log[k].op \in SshSteps)
                   => log[j].ok

\* C10: the files are taken one at a time in the order of the command line:
\* the iterations begun so far are the first files after the command, every
\* step logged belongs to the file of the current iteration, and the next
\* file is only begun from the for statement, outside any helper.
C10_OneFileAtATimeInOrder ==
    [][ /\ started' = SubSeq(args, 2, idx' + 1)
        /\ \A k \in 1..Len(log') : log'[k].file = idx'
        /\ idx' # idx =>
              /\ idx' = idx + 1
              /\ pc \in {"ssh_for", "nfs_for"}
              /\ helper = "none"
      ]_vars

\* C10 witness: the second of two different files is being worked on.
C10_Witness == idx = 2 /\ Len(log) > 0 /\ args[2] # args[3]

\* positions of the NFS branch: mount, the loop, the cleanup
NfsBranch ==
    OnNfs \/ pc \in {"nfs_mount", "nfs_getpwnam", "nfs_umount", "nfs_rmtree"}

C12_ConflictingTargetsRejected ==
    ( /\ args[1] = UPLOAD
      /\ pc # "validate"
      /\ (conf.iso_domain # "") = (conf.nfs_server # "") ) =>
        /\ Exited /\ status = CRITICAL
        /\ api = "none"
        /\ tmpDir = "none" /\ ~mounted
        /\ idx = 0 /\ log = << >>
        /\ \A f \in Names : ~tmp[f] /\ dest[f] # "new"

\* C12 witness: both an ISO domain and an NFS server were given and the
\* process has exited with the critical code.
C12_Witness ==
    conf.iso_domain # "" /\ conf.nfs_server # "" /\ Exited /\ status = CRITICAL

\* the list command ran to its end: connected, domains returned
ListDone ==
    /\ args[1] = LIST
    /\ pc \in {"return", "exited"}
    /\ api = "connected"
    /\ error \in {"none", "There are no ISO storage domains."}

IsoDomains == {k \in 1..Len(domains) : domains[k].type = "iso"}
WithStatus == {k \in IsoDomains : domains[k].status # "none"}
Line(k) == <<domains[k].name, domains[k].status>>

\* the printed lines are the lines of the domains K, one line each
Lists(K) ==
    /\ Len(output) = Cardinality(K)
    /\ \E f \in [1..Len(output) -> K] :
          /\ \A i, j \in 1..Len(output) : i # j => f[i] # f[j]
          /\ \A j \in 1..Len(output) : output[j] = Line(f[j])

Ascending ==
    \A i, j \in 1..Len(output) :
        i < j => Rank(output[i][1]) <= Rank(output[j][1])

\* C13 as stated: the list command prints exactly the domains of type iso
\* the engine returned, each with its status, in ascending order of name.
C13_ListsEveryIsoDomain == ListDone => (Lists(IsoDomains) /\ Ascending)

\* C13 amended: the list command prints exactly the domains of type iso
\* that have a status element, each with its status, in ascending order of
\* name; an ISO domain without a status element and a domain of any other
\* type are not printed.
C13_ListsIsoDomainsWithStatus == ListDone => (Lists(WithStatus) /\ Ascending)

\* C13 witness: two ISO domains were returned in descending order of name
\* and both were printed.
C13_Witness ==
    /\ ListDone /\ Len(output) = 2
    /\ Rank(domains[1].name) > Rank(domains[2].name)

\* C14 as stated: the exit status is one of 0..4; a list command exits
\* with 2 when the engine returned no ISO domain and with 0 when it
\* returned at least one.
C14_ExitCodeOfList ==
    Exited =>
        /\ status \in {NOERR, CRITICAL, LIST_ISO_ERR, UPLOAD_ERR, CLEANUP_ERR}
        /\ ListDone =>
              status = (IF IsoDomains = {} THEN LIST_ISO_ERR ELSE NOERR)

\* C14 amended: the exit status is one of 0..4; a list command exits with
\* 2 when the engine returned no ISO domain that has a status element and
\* with 0 when it returned at least one such domain.
C14_ExitCodeOfListWithStatus ==
    Exited =>
        /\ status \in {NOERR, CRITICAL, LIST_ISO_ERR, UPLOAD_ERR, CLEANUP_ERR}
        /\ ListDone =>
              status = (IF WithStatus = {} THEN LIST_ISO_ERR ELSE NOERR)

\* C14 witness: the engine returned domains, none of them of type iso, and
\* the list command exited with 2.
C14_Witness ==
    Exited /\ ListDone /\ Len(domains) > 0 /\ status = LIST_ISO_ERR

\* nothing was done for any file
Untouched ==
    /\ tmpDir = "none" /\ ~mounted
    /\ idx = 0 /\ log = << >>
    /\ \A f \in Names : ~tmp[f] /\ dest[f] # "new"

\* C15: once the engine was reached for an upload to a named domain, a
\* name no domain has ends the run with the domain-not-found error (exit
\* status 3) and a name whose domain is not of type iso ends it with the
\* wrong-type error (exit status 1); in both cases no file was checked,
\* copied, mounted for or reached over ssh.
C15_ResolveFailures ==
    (args[1] = UPLOAD /\ api = "connected" /\ pc # "resolve") =>
        LET named == {k \in 1..Len(domains) : domains[k].name = conf.iso_domain}
        IN  /\ named = {} =>
                  /\ Exited /\ error = "NEISODomain" /\ status = UPLOAD_ERR
                  /\ Untouched
            /\ (named # {} /\ \A k \in named : domains[k].type # "iso") =>
                  /\ Exited /\ error = "wrong_type" /\ status = CRITICAL
                  /\ Untouched

\* C15 witness: the named domain exists but is a data domain, and the run
\* has ended.
C15_Witness ==
    /\ Exited /\ api = "connected" /\ error = "wrong_type"
    /\ \E k \in 1..Len(domains) :
          domains[k].name = conf.iso_domain /\ domains[k].type = "data"

\* C16: when the connection to the engine could not be made, the operation
\* that asked for it did nothing: the process has exited with status 1,
\* nothing was printed, no domain was resolved and no file was touched.
\* A refresh always finds the connection of the domain resolution.
C16_ApiFailureIsCritical ==
    /\ api = "failed" =>
          /\ Exited /\ status = CRITICAL
          /\ output = << >> /\ id = "none" /\ error = "none"
          /\ Untouched
    /\ pc \in {"ssh_refresh", "nfs_refresh"} => api = "connected"

\* C16 witness: the list command could not connect and has exited.
C16_Witness == args[1] = LIST /\ api = "failed" /\ Exited /\ status = CRITICAL

\* C17: the step that refreshes the domain after a rename, whether the
\* refresh works or not, leaves the exit code and the renamed file as they
\* are, reports the file as uploaded and returns to the for statement,
\* which starts the next file when there is one.
C17_RefreshIsBestEffort ==
    [][ /\ pc \in {"ssh_refresh", "nfs_refresh"} =>
              /\ exit_code' = exit_code
              /\ dest[CurFile] = "new" /\ dest' = dest /\ tmp' = tmp
              /\ log'[Len(log')] = [file |-> idx, op |-> "uploaded", ok |-> TRUE]
              /\ pc' = (IF pc = "ssh_refresh" THEN "ssh_for" ELSE "nfs_for")
              /\ idx' = idx
        /\ (pc \in {"ssh_for", "nfs_for"} /\ idx < Len(files)) =>
              /\ idx' = idx + 1
              /\ pc' \in {"ssh_exists", "nfs_exists"}
      ]_vars

\* C17 witness: the refresh of a renamed file failed; the file is reported
\* as uploaded, the exit code is still 0 and the loop is at its for
\* statement with the first of two files done.
C17_Witness ==
    /\ Did("refresh") /\ ~DidOk("refresh") /\ Did("uploaded")
    /\ exit_code = NOERR /\ dest[CurFile] = "new"
    /\ pc \in {"ssh_for", "nfs_for"} /\ idx < Len(files)

(***************************************************************************)
(* The side computations are studied on their own, with no command         *)
(* running.                                                                *)
(***************************************************************************)
Rest ==
    /\ conf = NoTarget
    /\ args = <<LIST>>
    /\ domains = << >>
    /\ dest = [n \in Names |-> "absent"]
    /\ Started

(***************************************************************************)
(* Caller.call, lines 137-157: subprocess.Popen starts the command,        *)
(* communicate() waits for it and collects its output, the return code     *)
(* decides between returning and raising.                                  *)
(***************************************************************************)
Texts == {"", "out", "err"}

Processes == [returncode : 0..MaxStatus, stdout : Texts, stderr : Texts]

\* a call that reports a failure with what the command printed
call_result_stdout(p) ==
    IF p.returncode = 0
    THEN [kind |-> "return", value |-> <<p.stdout, p.returncode>>]
    ELSE [kind |-> "raise", value |-> p.stdout]

\* if returncode == 0: return (stdout, returncode)
\* else: raise Exception(stderr)
call_result(p) ==
    IF p.returncode = 0
    THEN [kind |-> "return", value |-> <<p.stdout, p.returncode>>]
    ELSE [kind |-> "raise", value |-> p.stderr]

\* proc = subprocess.Popen(_cmds, ...): the command runs
call_Popen ==
    /\ caller.pc = "idle"
    /\ caller.calls < MaxCalls
    /\ \E p \in Processes :
         caller' = [pc |-> "communicate", calls |-> caller.calls + 1,
                    runs |-> caller.runs + 1, proc |-> p,
                    result |-> [kind |-> "none"]]
    /\ UNCHANGED <<mainVars, cfg, cpy, ini>>

\* stdout, stderr = proc.communicate() and the test of the return code
call_communicate ==
    /\ caller.pc = "communicate"
    /\ caller' = [caller EXCEPT !.pc = "idle",
                                !.result = call_result(caller.proc)]
    /\ UNCHANGED <<mainVars, cfg, cpy, ini>>

CallInit ==
    /\ Rest
    /\ caller = IdleCaller
    /\ cfg = IdleCfg
    /\ cpy = IdleCpy
    /\ ini = IdleIni

CallNext ==
    \/ call_Popen
    \/ call_communicate

CallSpec == CallInit /\ [][CallNext]_vars

\* C18: every call has started exactly one process, and a finished call
\* has returned (stdout, 0) when the process ended with status 0 and has
\* raised an error carrying stderr when it ended with any other status; a
\* failed command is not started again.
C18_CallRunsOnce ==
    /\ caller.runs = caller.calls
    /\ (caller.pc = "idle" /\ caller.calls > 0) =>
          /\ caller.proc.returncode = 0 =>
                caller.result = [kind |-> "return",
                                 value |-> <<caller.proc.stdout, 0>>]
          /\ caller.proc.returncode # 0 =>
                caller.result = [kind |-> "raise",
                                 value |-> caller.proc.stderr]

\* C18 witness: the second of two calls failed with text on both streams,
\* and two processes were started in all.
C18_Witness ==
    /\ caller.pc = "idle" /\ caller.calls = 2 /\ caller.runs = 2
    /\ caller.proc.returncode # 0
    /\ caller.proc.stdout = "out" /\ caller.proc.stderr = "err"
    /\ caller.result.kind = "raise"

(***************************************************************************)
(* Configuration.__init__, lines 171-211, with load_config_file, from_file *)
(* and from_options.  A layer (command line, configuration file) gives     *)
(* each option a value or leaves it out.  optparse stores the value of an  *)
(* option that takes one and True for a flag given without a value; a flag *)
(* given as --flag=value is a usage error, which ends the process with     *)
(* status 2.  from_file hands every item of the file to the parser as      *)
(* --key=value.                                                            *)
(***************************************************************************)
USAGE_ERR == 2

\* what a layer can say: nothing, a value for an option that takes one,
\* True for a flag
Layers(given) ==
    {l \in [Opts -> {Absent, "True", given}] :
        \A o \in Opts :
            l[o] = Absent \/ l[o] = (IF o \in Flags THEN "True" ELSE given)}

\* parser.parse_args(args, values=vals): each option of the layer is stored
\* over what vals holds, the others are left as they are
parse_args(layer, vals) ==
    [o \in Opts |-> IF layer[o] # Absent THEN layer[o] ELSE vals[o]]

\* "--%s=%s" % (k, v) for a flag: "option does not take a value"
explicit_value_error(layer) == \E o \in Flags : layer[o] # Absent

\* from_options / from_option_groups: self[dest] = value unless it is None
from_options(opts, dict) ==
    [o \in Opts |-> IF opts[o] # None THEN opts[o] ELSE dict[o]]

\* self.options, self.args = self.parser.parse_args()
Configuration_parse ==
    /\ cfg.pc = "parse_args"
    /\ cfg' = [cfg EXCEPT !.options = parse_args(cfg.argv, Defaults),
                          !.pc = "load_config_file"]
    /\ UNCHANGED <<mainVars, caller, cpy, ini>>

\* self.load_config_file()
load_config_file ==
    /\ cfg.pc = "load_config_file"
    /\ IF explicit_value_error(cfg.file)
       THEN cfg' = [cfg EXCEPT !.pc = "exited", !.status = USAGE_ERR]
       ELSE LET new_options == parse_args(cfg.file, cfg.options)
            IN  cfg' = [cfg EXCEPT !.options = new_options,
                                   !.values = from_options(new_options, cfg.values),
                                   !.pc = "parse_again"]
    /\ UNCHANGED <<mainVars, caller, cpy, ini>>

\* "Need to parse again to override configuration file options"
Configuration_parse_again ==
    /\ cfg.pc = "parse_again"
    /\ LET options == parse_args(cfg.argv, cfg.options)
       IN  cfg' = [cfg EXCEPT !.options = options,
                              !.values = from_options(options, cfg.values),
                              !.pc = "done"]
    /\ UNCHANGED <<mainVars, caller, cpy, ini>>

CfgInit ==
    /\ Rest
    /\ caller = IdleCaller
    /\ cpy = IdleCpy
    /\ ini = IdleIni
    /\ \E a \in Layers("cli"), f \in Layers("file") :
         cfg = [IdleCfg EXCEPT !.pc = "parse_args", !.argv = a, !.file = f]

CfgNext ==
    \/ Configuration_parse
    \/ load_config_file
    \/ Configuration_parse_again

CfgSpec == CfgInit /\ [][CfgNext]_vars

\* the value the three layers give an option
Effective(o) ==
    IF cfg.argv[o] # Absent THEN cfg.argv[o]
    ELSE IF cfg.file[o] # Absent THEN cfg.file[o]
    ELSE Defaults[o]

\* C19: the configuration comes into being, and every option then has the
\* command-line value when one was given, otherwise the value of the
\* configuration file when the file sets it, otherwise the default.
C19_Precedence ==
    cfg.pc \in {"done", "exited"} =>
        /\ cfg.pc = "done"
        /\ \A o \in Opts : cfg.values[o] = Effective(o)

(***************************************************************************)
(* copyfileobj_sparse_progress, lines 778-826.  A byte is 0 or 1 (any      *)
(* non-zero byte).  The destination was opened for writing and is empty;   *)
(* it is described by what reading it gives back (data) and by the         *)
(* positions that were written (alloc): a position of data outside alloc   *)
(* is a hole.  rpos and wpos are the positions of fsrc and fdst.           *)
(***************************************************************************)
Min(a, b) == IF a < b THEN a ELSE b

Zeros(n) == [k \in 1..n |-> 0]

\* fsrc.read(length) at position r
read(src, r, len) == SubSeq(src, r + 1, Min(r + len, Len(src)))

\* a test that looks at the first byte of the block only
first_zero(buf) == buf[1] = 0

\* buf == '\0'*len(buf)
all_zero(buf) == \A k \in 1..Len(buf) : buf[k] = 0

\* fdst.write(buf) at position w: a gap left by earlier seeks reads as zeros
write(data, w, buf) ==
    LET padded == IF w > Len(data) THEN data \o Zeros(w - Len(data)) ELSE data
    IN  SubSeq(padded, 1, w) \o buf
          \o SubSeq(padded, w + Len(buf) + 1, Len(padded))

\* a truncate that only ever shortens the file
truncate_shorten(data, w) ==
    IF w > Len(data) THEN data ELSE SubSeq(data, 1, w)

\* fdst.truncate(): the file ends at the current position; on Linux, the
\* platform of the tool, ftruncate beyond the end extends the file with a
\* hole
truncate(data, w) ==
    IF w > Len(data) THEN data \o Zeros(w - Len(data)) ELSE SubSeq(data, 1, w)

\* one turn of the while loop: read a block, then seek over it or write it
copy_block ==
    /\ cpy.pc = "loop"
    /\ LET buf == read(cpy.fsrc, cpy.rpos, cpy.length)
       IN  IF Len(buf) = 0
           THEN cpy' = [cpy EXCEPT !.pc = "truncate"]
           ELSE IF cpy.make_sparse /\ all_zero(buf)
           THEN cpy' = [cpy EXCEPT !.rpos = @ + Len(buf),
                                   !.wpos = @ + Len(buf)]
           ELSE cpy' = [cpy EXCEPT
                          !.rpos = @ + Len(buf),
                          !.data = write(cpy.data, cpy.wpos, buf),
                          !.alloc = @ \cup (cpy.wpos + 1 .. cpy.wpos + Len(buf)),
                          !.wpos = @ + Len(buf)]
    /\ UNCHANGED <<mainVars, caller, cfg, ini>>

\* if make_sparse: fdst.truncate()
copy_truncate ==
    /\ cpy.pc = "truncate"
    /\ cpy' = [cpy EXCEPT
                 !.data = IF cpy.make_sparse THEN truncate(@, cpy.wpos) ELSE @,
                 !.pc = "done"]
    /\ UNCHANGED <<mainVars, caller, cfg, ini>>

Sources == UNION {[1..n -> {0, 1}] : n \in 0..MaxLen}

CopyInit ==
    /\ Rest
    /\ caller = IdleCaller
    /\ cfg = IdleCfg
    /\ ini = IdleIni
    /\ \E src \in Sources, len \in 1..MaxChunk, sparse \in BOOLEAN :
         cpy = [IdleCpy EXCEPT !.pc = "loop", !.fsrc = src, !.length = len,
                               !.make_sparse = sparse]

CopyNext ==
    \/ copy_block
    \/ copy_truncate

CopySpec == CopyInit /\ [][CopyNext]_vars

\* the bytes of the block of the source that holds position p
BlockOf(p) ==
    LET first == ((p - 1) \div cpy.length) * cpy.length
    IN  read(cpy.fsrc, first, cpy.length)

\* C20 as stated: after a sparse copy no zero byte of the source was
\* written: each is a hole of the destination.
C20_EveryZeroRunIsAHole ==
    (cpy.pc = "done" /\ cpy.make_sparse) =>
        \A p \in 1..Len(cpy.fsrc) : cpy.fsrc[p] = 0 => p \notin cpy.alloc

\* C20 amended: after a sparse copy the holes of the destination are
\* exactly the blocks read from the source (length bytes each, the last
\* one possibly shorter) that hold zero bytes only; the zero bytes of a
\* block that holds a non-zero byte are written.
C20_ZeroBlocksAreHoles ==
    (cpy.pc = "done" /\ cpy.make_sparse) =>
        /\ Len(cpy.data) = Len(cpy.fsrc)
        /\ \A p \in 1..Len(cpy.fsrc) :
              p \notin cpy.alloc <=> \A k \in 1..Len(BlockOf(p)) : BlockOf(p)[k] = 0

\* C20 witness: a sparse copy in blocks of two bytes has ended with a hole
\* at the end of the file and a zero byte written next to a non-zero one.
C20_Witness ==
    /\ cpy.pc = "done" /\ cpy.make_sparse /\ cpy.length = 2
    /\ Len(cpy.fsrc) = 4
    /\ cpy.alloc = {1, 2}
    /\ cpy.fsrc[1] = 0 /\ cpy.fsrc[2] = 1

\* C23: with force set and the destination file there at the existence
\* check, every free-space check of that file comes after a removal that
\* worked; and once the space check was made, the final name holds no file
\* unless the rename worked.
C23_ForceRemovesBeforeSpaceCheck ==
    (present /\ conf.force) =>
        /\ \A k \in At("space") :
              \E j \in 1..(k - 1) : log[j].op = "remove" /\ log[j].ok
        /\ (Did("space") /\ ~DidOk("rename")) => dest[CurFile] = "absent"

\* C24: the effective GID only changes in a step that begins and ends with
\* the effective UID 0; the effective UID is lowered only after the GID
\* was lowered and is set back to 0 while the GID is still lowered.
C24_GidChangedOnlyAsRoot ==
    [][ /\ egid' # egid => (euid = ROOT_ID /\ euid' = ROOT_ID)
        /\ (euid' # euid /\ euid' # ROOT_ID) =>
              (egid = NUMERIC_VDSM_ID /\ egid' = egid)
        /\ (euid' # euid /\ euid' = ROOT_ID) =>
              (egid = NUMERIC_VDSM_ID /\ egid' = egid)
      ]_vars

\* C24 witness: copy_file is half way through restoring: the UID is 0
\* again, the GID is still the lowered one.
C24_Witness ==
    /\ helper = "copy_file" /\ hpc = "setegid0"
    /\ euid = ROOT_ID /\ egid = NUMERIC_VDSM_ID

\* C25: a mount command that fails and a missing vdsm account set the exit
\* code to critical and lead straight to the unmount step; from there to
\* the end of the run no file has been iterated, no step was performed and
\* the destination is as it was.
C25_SetupFailureSkipsFiles ==
    [][ /\ (pc \in {"nfs_mount", "nfs_getpwnam"} /\ pc' \notin {"nfs_getpwnam", "nfs_for"}) =>
              /\ exit_code' = CRITICAL
              /\ pc' = "nfs_umount"
              /\ idx' = 0 /\ log' = << >>
        /\ (idx = 0 /\ pc \in {"nfs_umount", "nfs_rmtree", "return"}) =>
              /\ idx' = 0 /\ log' = << >>
              /\ dest' = dest /\ tmp' = tmp
              /\ \A f \in Names : ~tmp[f] /\ dest[f] # "new"
              /\ helper = "none"
      ]_vars

\* C25 witness: the export is mounted, the vdsm account is unknown, and the
\* run stands at the unmount step with the critical exit code.
C25_Witness ==
    /\ pc = "nfs_umount" /\ idx = 0 /\ mounted
    /\ exit_code = CRITICAL

\* C26: an upload without an ISO domain never has an API connection or a
\* domain id and never refreshes; it is never at an ssh/scp step, and an
\* SSH user given with an NFS server ends the run in the configuration
\* check with nothing done; a refresh on the SSH transport always has a
\* resolved domain id.
C26_NfsServerUploadWithoutApi ==
    /\ (args[1] = UPLOAD /\ conf.iso_domain = "") =>
          /\ api = "none" /\ id = "none"
          /\ pc \notin {"ssh_refresh", "nfs_refresh"} /\ ~Did("refresh")
          /\ ~OnSsh
    /\ (conf.ssh_user # "" /\ conf.nfs_server # "" /\ pc # "validate") =>
          (Exited /\ status = CRITICAL /\ Untouched)
    /\ (pc = "ssh_refresh" \/ (OnSsh /\ Did("refresh"))) =>
          (id # "none" /\ api = "connected")

\* C26 witness: a file was uploaded to an NFS server given on the command
\* line and reported, without any refresh.
C26_Witness ==
    /\ conf.iso_domain = "" /\ conf.nfs_server # ""
    /\ OnNfs /\ DidOk("rename") /\ Did("uploaded")

\* C27: once the transport was chosen for a domain on local storage with
\* no SSH user, the exit code is 3 (and so is the exit status), no
\* temporary directory exists, nothing is mounted, and no file was
\* iterated, checked, copied or renamed.
C27_LocalStorageNeedsSsh ==
    (domain_type = "localfs" /\ conf.ssh_user = "" /\ pc # "transport") =>
        /\ exit_code = UPLOAD_ERR
        /\ pc \in {"return", "exited"}
        /\ Exited => status = UPLOAD_ERR
        /\ Untouched

\* C27 witness: such a run has exited with status 3.
C27_Witness ==
    domain_type = "localfs" /\ conf.ssh_user = "" /\ Exited /\ status = UPLOAD_ERR

\* C28: when the copy has ended, with sparse mode on or off, the
\* destination is as long as the source and reading it gives the bytes of
\* the source.
C28_CopyRoundTrip ==
    cpy.pc = "done" =>
        /\ Len(cpy.data) = Len(cpy.fsrc)
        /\ \A p \in 1..Len(cpy.fsrc) : cpy.data[p] = cpy.fsrc[p]

\* C28 witness: a sparse copy of a source that ends in a block of zero
\* bytes after a block that was written.
C28_Witness ==
    /\ cpy.pc = "done" /\ cpy.make_sparse /\ cpy.length = 2
    /\ cpy.fsrc = <<1, 1, 0, 0>>
    /\ cpy.alloc = {1, 2} /\ Len(cpy.data) = 4

(***************************************************************************)
(* KeyboardInterrupt (the user presses CTRL+C).  It is no Exception, so    *)
(* the handlers of the loops let it pass; __main__ (lines 1505-1506)       *)
(* prints "Exiting on user cancel." and goes on to                         *)
(* sys.exit(ExitCodes.exit_code).  Inside the try of the NFS transport the *)
(* finally clauses run first: the helper restores the privileges and the   *)
(* export is unmounted.  The bare except of exists_ssh swallows it.        *)
(***************************************************************************)
InNfsTry == OnNfs \/ pc \in {"nfs_mount", "nfs_getpwnam"}

\* an interrupt that reaches __main__ at once
KeyboardInterrupt ==
    /\ pc # "exited"
    /\ ~InNfsTry
    /\ error' = "KeyboardInterrupt"
    /\ Exit(exit_code)
    /\ UNCHANGED <<inputVars, api, output, sideVars, fsVars, privVars,
                   mountVars, spaceVars, idx, id, domain_type, retVal,
                   exit_code, log, started, present, nospace>>

\* an interrupt inside the try of the NFS transport
KeyboardInterrupt_nfs ==
    /\ InNfsTry
    /\ error' = "KeyboardInterrupt"
    /\ euid' = RestoreUid(euid)
    /\ egid' = RestoreGid(egid)
    /\ Leave
    /\ pc' = "nfs_umount"
    /\ UNCHANGED <<inputVars, api, output, sideVars, fsVars, mountVars,
                   spaceVars, idx, id, domain_type, retVal, exit_code, status,
                   log, started, present, nospace>>

\* an interrupt while exists_ssh waits for its ssh command: except: pass
KeyboardInterrupt_exists_ssh ==
    /\ pc = "ssh_exists"
    /\ retVal' = FALSE
    /\ present' = (dest[CurFile] # "absent")
    /\ log' = Append(log, Step("exists", FALSE))
    /\ ExistsBranch(FALSE, "ssh_remove", "ssh_space", "ssh_for")
    /\ UNCHANGED <<inputVars, apiVars, sideVars, fsVars, privVars, mountVars,
                   spaceVars, idx, id, domain_type, status, started, nospace>>

InterruptNext ==
    \/ Next
    \/ KeyboardInterrupt
    \/ KeyboardInterrupt_nfs
    \/ KeyboardInterrupt_exists_ssh

InterruptSpec == Init /\ [][InterruptNext]_vars

\* C21: a run that was interrupted exits with a status that is not 0 and
\* is not the exit code the work done before the interrupt had left.
C21_InterruptExitCode ==
    (Exited /\ error = "KeyboardInterrupt") =>
        (status # NOERR /\ status # exit_code)

(***************************************************************************)
(* _initialize_api, lines 453-545, with Configuration.prompt, getpass and  *)
(* _prompt (lines 337-357) and get_from_prompt (lines 87-92).  ini.conf    *)
(* holds the keys of the configuration the method reads, ini.asked the     *)
(* keys the user was prompted for, ini.conn the arguments handed to        *)
(* ovirtsdk4.Connection (empty while no connection was attempted).         *)
(***************************************************************************)
Keys == {"engine", "user", "passwd"}

\* what the user does at a prompt: CTRL+D, Enter alone, or a typed value
Inputs == {"EOF", "", "typed"}

\* except EOFError: return default (None)
get_from_prompt(input) == IF input = "EOF" THEN None ELSE input

\* a test that takes every key for missing
not_in_always(c, key) == TRUE

\* if key not in self
not_in(c, key) == c[key] = None

\* if value: None and the empty string are false
truthy(value) == value \notin {None, ""}

\* bool(self.configuration.get("kerberos"))
with_kerberos == ini.kerberos

(***************************************************************************)
(* prompt/getpass of one key, then the step `next`.  A key that is in the  *)
(* configuration is not asked for.  An empty or aborted answer raises      *)
(* SkipException, which _initialize_api turns into an Exception (lines     *)
(* 483-487) that reaches __main__'s handler: sys.exit(ExitCodes.CRITICAL). *)
(***************************************************************************)
Prompted(key, next) ==
    IF ~not_in(ini.conf, key)
    THEN ini' = [ini EXCEPT !.pc = next]
    ELSE \E input \in Inputs :
           LET value == get_from_prompt(input)
           IN  IF truthy(value)
               THEN ini' = [ini EXCEPT !.pc = next,
                                       !.asked = Append(@, key),
                                       !.conf[key] = value]
               ELSE ini' = [ini EXCEPT !.pc = "exited",
                                       !.asked = Append(@, key),
                                       !.status = CRITICAL]

\* if self.api is None: ... return True
initialize_api_enter ==
    /\ ini.pc = "enter"
    /\ IF ini.api = "none"
       THEN ini' = [ini EXCEPT !.pc = "prompt_engine"]
       ELSE ini' = [ini EXCEPT !.pc = "return", !.ret = TRUE]
    /\ UNCHANGED <<mainVars, caller, cfg, cpy>>

prompt_engine ==
    /\ ini.pc = "prompt_engine"
    /\ Prompted("engine", IF with_kerberos THEN "Connection" ELSE "prompt_user")
    /\ UNCHANGED <<mainVars, caller, cfg, cpy>>

prompt_user ==
    /\ ini.pc = "prompt_user"
    /\ Prompted("user", "getpass_passwd")
    /\ UNCHANGED <<mainVars, caller, cfg, cpy>>

getpass_passwd ==
    /\ ini.pc = "getpass_passwd"
    /\ Prompted("passwd", "Connection")
    /\ UNCHANGED <<mainVars, caller, cfg, cpy>>

\* ovirtsdk4.Connection(...) and the product information; the three callers
\* leave with sys.exit(ExitCodes.CRITICAL) when False is returned
ovirtsdk4_Connection ==
    /\ ini.pc = "Connection"
    /\ \E outcome \in ApiOutcomes :
         LET a == Connection(ini.api, outcome)
         IN  ini' = [ini EXCEPT
                       !.pc = IF initialize_api(a) THEN "return" ELSE "exited",
                       !.api = a,
                       !.conn = <<ini.conf.user, ini.conf.passwd,
                                  with_kerberos>>,
                       !.ret = initialize_api(a),
                       !.status = IF initialize_api(a) THEN @ ELSE CRITICAL]
    /\ UNCHANGED <<mainVars, caller, cfg, cpy>>

\* the engine option has a default (line 1424) and is always in the
\* configuration; user and passwd have none; an option given an empty value
\* is in the configuration
ApiInit ==
    /\ Rest
    /\ caller = IdleCaller
    /\ cfg = IdleCfg
    /\ cpy = IdleCpy
    /\ \E e \in {"localhost:443", "engine.example.com", ""},
          u \in {None, "", "admin@internal"},
          p \in {None, "", "secret"},
          k \in BOOLEAN,
          a \in {"none", "connected"} :
         ini = [IdleIni EXCEPT !.pc = "enter", !.api = a, !.kerberos = k,
                               !.conf = [engine |-> e, user |-> u,
                                         passwd |-> p]]

ApiNext ==
    \/ initialize_api_enter
    \/ prompt_engine
    \/ prompt_user
    \/ getpass_passwd
    \/ ovirtsdk4_Connection

ApiSpec == ApiInit /\ [][ApiNext]_vars

\* the key the step has prompted for
AskedFor == ini'.asked[Len(ini'.asked)]

\* C22: a step prompts only for one of engine, user and password that is
\* not in the configuration, and never when Kerberos was requested; a
\* prompt that stored no value (aborted or answered empty) ends the run
\* with exit code 1, no connection having been attempted.
C22_PromptsOnlyForMissing ==
    [][ /\ (ini'.asked # ini.asked) =>
             /\ ini'.asked = Append(ini.asked, AskedFor)
             /\ AskedFor \in Keys
             /\ ini.conf[AskedFor] = None
             /\ ~ini.kerberos
             /\ ini.conn = << >>
             /\ (ini'.conf[AskedFor] = None) =>
                    /\ ini'.pc = "exited"
                    /\ ini'.status = CRITICAL
                    /\ ini'.conn = << >>
                    /\ ini'.api = "none"
        /\ (ini'.conn # ini.conn) =>
             ini.kerberos \/ (ini.conf.user # None /\ ini.conf.passwd # None)
      ]_vars

\* the user was given at the prompt, the password prompt was aborted, and
\* the run ended with exit code 1 without a connection
C22_Witness ==
    /\ ini.pc = "exited"
    /\ ini.asked = <<"user", "passwd">>
    /\ ini.conf.user = "typed"
    /\ ini.conf.passwd = None
    /\ ini.status = CRITICAL
    /\ ini.conn = << >>

====
